---------------------------- MODULE Spec2Model ----------------------------
(***************************************************************************)
(* Model of the OTLP metric gRPC export client                             *)
(* (exporters/otlp/otlpmetric/otlpmetricgrpc/client.go).                   *)
(*                                                                         *)
(* State: the client struct, the connection objects it may reference, a    *)
(* clock, the UploadMetrics calls in progress and the last completed       *)
(* call of the non-blocking methods.  A second specification,              *)
(* SpecClassifier, applies the pure function retryable to bounded inputs.  *)
(***************************************************************************)
EXTENDS Integers, Sequences, FiniteSets, TLC

VARIABLES
    built,      \* "no" before newClient ran, then "ok" or "failed"
    newErr,     \* the error newClient returned
    client,     \* the client struct (NoClient before construction)
    closeCalls, \* per connection object: number of Close() calls it received
    dials,      \* number of grpc.DialContext calls made
    shutdowns,  \* number of Shutdown calls made
    calls,      \* per caller: the UploadMetrics call it is running or last ran
    lastOp,     \* the last ForceFlush/Shutdown/Temporality/Aggregation call
    clsIn,      \* SpecClassifier: the error handed to retryable
    clsOut      \* SpecClassifier: what retryable returned for it

vars == <<built, newErr, client, closeCalls, dials, shutdowns, calls,
          lastOp, clsIn, clsOut>>

-----------------------------------------------------------------------------
(* Bounds of the model *)

\* longest time, in ticks, a caller's scope has left before its deadline
MaxTime == 2
\* export attempts one UploadMetrics call may make in the model
MaxAttempts == 3
\* largest configured export timeout, in ticks
MaxTimeout == 2
\* Shutdown calls made on one client in the model
MaxShutdowns == 2
\* largest backoff interval the retry strategy picks, in ticks
MaxBackoff == 1
\* longest detail list of an error handed to the classifier
MaxDetails == 2
\* largest magnitude of the seconds field of a retry delay
MaxSecs == 2
\* width in bits of the (scaled) signed integer behind time.Duration
DurBits == 4
\* ticks per second of the (scaled) time.Duration
Second == 4

-----------------------------------------------------------------------------
(* Integer helpers *)

Min(a, b) == IF a <= b THEN a ELSE b

Max(a, b) == IF a >= b THEN a ELSE b

RECURSIVE Pow2(_)
Pow2(n) == IF n = 0 THEN 1 ELSE 2 * Pow2(n - 1)

MaxDuration == Pow2(DurBits - 1) - 1

MinDuration == 0 - Pow2(DurBits - 1)

\* two's-complement wrap of an integer to the width of time.Duration
Wrap(x) == ((x - MinDuration) % Pow2(DurBits)) + MinDuration

\* Go's integer division truncates toward zero
Quot(a, b) == IF a >= 0 THEN a \div b ELSE 0 - ((0 - a) \div b)

-----------------------------------------------------------------------------
(* Errors, gRPC status codes and error details *)

\* google.golang.org/grpc/codes: the seventeen status codes
Codes ==
    {"OK", "Canceled", "Unknown", "InvalidArgument", "DeadlineExceeded",
     "NotFound", "AlreadyExists", "PermissionDenied", "ResourceExhausted",
     "FailedPrecondition", "Aborted", "OutOfRange", "Unimplemented",
     "Internal", "Unavailable", "DataLoss", "Unauthenticated"}

\* the codes of the case list of retryable
RetryableCodes ==
    {"Canceled", "DeadlineExceeded", "ResourceExhausted", "Aborted",
     "OutOfRange", "Unavailable", "DataLoss"}

\* a protobuf Duration: seconds and nanos; set = FALSE is the nil message
NoDelay == [set |-> FALSE, secs |-> 0, nanos |-> 0]

Delay(s, n) == [set |-> TRUE, secs |-> s, nanos |-> n]

\* a status detail: an errdetails.RetryInfo with its RetryDelay, or another kind
RetryInfo(d) == [type |-> "RetryInfo", delay |-> d]

DebugInfo == [type |-> "DebugInfo", delay |-> NoDelay]

\* error values: nil, a context error, a gRPC status error, a connection
\* close error, a dial error, another plain error, a wrapped status error
Err(k, c, ds) == [kind |-> k, code |-> c, details |-> ds]

Nil == Err("nil", "OK", <<>>)

Canceled == Err("ctx", "Canceled", <<>>)

DeadlineExceeded == Err("ctx", "DeadlineExceeded", <<>>)

CloseErr == Err("close", "Canceled", <<>>)

DialErr == Err("dial", "Unknown", <<>>)

PlainErr == Err("plain", "Unknown", <<>>)

StatusErr(c, ds) == Err("status", c, ds)

\* the retry strategy's "max retry time elapsed: %w" wrapping of err
WrapErr(e) == Err("wrapped", e.code, e.details)

\* status.Convert(err): nil is OK, a status error is its status, any other
\* error is code Unknown with no details
Convert(e) ==
    IF e.kind = "nil" THEN [code |-> "OK", details |-> <<>>]
    ELSE IF e.kind = "status" THEN [code |-> e.code, details |-> e.details]
    ELSE [code |-> "Unknown", details |-> <<>>]

\* status.Code(err)
Code(e) == Convert(e).code

\* durationpb.Duration.AsDuration: seconds*Second + nanos in the integer
\* behind time.Duration, saturating at the largest/smallest duration on
\* overflow; the nil message converts to 0
AsDuration(x) ==
    LET secs == IF x.set THEN x.secs ELSE 0
        nanos == IF x.set THEN x.nanos ELSE 0
        d0 == Wrap(secs * Second)
        over0 == Quot(d0, Second) # secs
        d == Wrap(d0 + nanos)
        overflow == \/ over0
                    \/ (secs < 0 /\ nanos < 0 /\ d > 0)
                    \/ (secs > 0 /\ nanos > 0 /\ d < 0)
    IN  IF overflow /\ secs < 0 THEN MinDuration
        ELSE IF overflow /\ secs > 0 THEN MaxDuration
        ELSE d

\* mutant: the first detail's delay is returned whatever its type
throttleDelayAnyDetail(ds) ==
    IF ds = <<>> THEN 0 ELSE AsDuration(Head(ds).delay)

\* throttleDelay(s): the delay of the first RetryInfo detail, else 0
RECURSIVE throttleDelay(_)
throttleDelay(ds) ==
    IF ds = <<>> THEN 0
    ELSE IF Head(ds).type = "RetryInfo" THEN AsDuration(Head(ds).delay)
    ELSE throttleDelay(Tail(ds))

\* mutant: Unavailable is missing from the case list
retryableNoUnavailable(err) ==
    LET s == Convert(err)
    IN  IF s.code \in RetryableCodes \ {"Unavailable"}
        THEN [retry |-> TRUE, delay |-> throttleDelay(s.details)]
        ELSE [retry |-> FALSE, delay |-> 0]

\* mutant: every failure is retried
retryableAlways(err) ==
    LET s == Convert(err)
    IN  [retry |-> s.code # "OK", delay |-> throttleDelay(s.details)]

\* retryable(err): whether err may be retried, and the throttle delay
retryable(err) ==
    LET s == Convert(err)
    IN  IF s.code \in RetryableCodes
        THEN [retry |-> TRUE, delay |-> throttleDelay(s.details)]
        ELSE [retry |-> FALSE, delay |-> 0]

-----------------------------------------------------------------------------
(* context.Context: whether it has a deadline and the time left until it   *)
(* (time is kept relative to the present: a tick of the clock shortens     *)
(* every deadline by one), the error Err() reports, and the outgoing       *)
(* metadata attached to it                                                 *)

Scope(has, l, e) == [hasDeadline |-> has, left |-> l, err |-> e, md |-> {}]

Background == Scope(FALSE, 0, Nil)

\* a live context whose deadline has come reports DeadlineExceeded
Expire(s) ==
    IF s.err = Nil /\ s.hasDeadline /\ s.left <= 0
    THEN [s EXCEPT !.err = DeadlineExceeded]
    ELSE s

\* one tick of the clock passes
Elapse(s) ==
    IF s.hasDeadline /\ s.left > 0 THEN Expire([s EXCEPT !.left = @ - 1])
    ELSE s

\* a CancelFunc was called: a live context reports Canceled from then on
Cancel(s) == IF s.err = Nil THEN [s EXCEPT !.err = Canceled] ELSE s

\* context.WithCancel(parent): the parent's deadline and error
WithCancel(parent) == parent

\* context.WithTimeout(parent, timeout): the deadline is timeout from now
\* unless the parent's deadline is sooner; done at once if the parent is
\* done or the deadline has already come
WithTimeout(parent, timeout) ==
    IF parent.hasDeadline /\ parent.left < timeout
    THEN WithCancel(parent)
    ELSE Expire([parent EXCEPT !.hasDeadline = TRUE,
                               !.left = Max(timeout, 0)])

\* metadata.NewOutgoingContext(ctx, md)
NewOutgoingContext(ctx, md) == [ctx EXCEPT !.md = md]

\* the scopes a caller can pass: live ones (no deadline, or a deadline
\* still to come), cancelled ones, and ones past their deadline
LiveScopes == {Background} \cup {Scope(TRUE, l, Nil) : l \in 1..MaxTime}

DoneScopes == {Scope(FALSE, 0, Canceled), Scope(TRUE, 0, DeadlineExceeded)}

Scopes == LiveScopes \cup DoneScopes

-----------------------------------------------------------------------------
(* The client struct and its construction *)

ConnIds == {"supplied", "dialed"}

\* view.InstrumentKind values used as inputs
InstrumentKinds == {"SyncCounter", "SyncHistogram"}

\* the selectors a configuration can carry: functions of the instrument kind
\* (a temporality selector and an aggregation selector)
Selectors ==
    {<<[k \in InstrumentKinds |-> "Cumulative"],
       [k \in InstrumentKinds |->
          IF k = "SyncCounter" THEN "Sum" ELSE "ExplicitBucketHistogram"]>>,
     <<[k \in InstrumentKinds |->
          IF k = "SyncCounter" THEN "Delta" ELSE "Cumulative"],
       [k \in InstrumentKinds |-> "Drop"]>>}

\* the configurations newClient can be given: a supplied connection or none,
\* headers or none, an export timeout, a retry policy and the two selectors
Headers == {{}, {"api-key"}}

\* no export timeout, or one of MaxTimeout ticks
Timeouts == {0, MaxTimeout}

RetryPolicies == {"disabled", "unlimited", "limited"}

Configs ==
    {[GRPCConn |-> g, Headers |-> h, Timeout |-> t, Retry |-> r,
      TemporalitySelector |-> sel[1], AggregationSelector |-> sel[2]] :
        g \in {"nil", "supplied"}, h \in Headers, t \in Timeouts,
        r \in RetryPolicies, sel \in Selectors}

NoClient ==
    [metadata |-> {}, exportTimeout |-> 0, requestFunc |-> "nil",
     temporalitySelector |-> [k \in InstrumentKinds |-> "Cumulative"],
     aggregationSelector |-> [k \in InstrumentKinds |-> "Drop"],
     ourConn |-> FALSE, conn |-> "nil", msc |-> "nil"]

\* cfg.RetryConfig.RequestFunc(retryable): the strategy the policy yields
RequestFunc(policy) == IF policy = "disabled" THEN "direct" ELSE policy

\* colmetricpb.NewMetricsServiceClient(conn): a stub bound to conn
NewMetricsServiceClient(conn) == conn

\* mutant: a failed dial still yields a client, without connection and stub
newClientHalfInitialised(cfg, dialOK) ==
    LET c0 == [metadata |-> cfg.Headers,
               exportTimeout |-> cfg.Timeout,
               requestFunc |-> RequestFunc(cfg.Retry),
               temporalitySelector |-> cfg.TemporalitySelector,
               aggregationSelector |-> cfg.AggregationSelector,
               ourConn |-> FALSE, conn |-> cfg.GRPCConn, msc |-> "nil"]
    IN  IF c0.conn = "nil"
        THEN IF ~dialOK
             THEN [ok |-> TRUE, c |-> c0, err |-> Nil, dialed |-> 1]
             ELSE [ok |-> TRUE,
                   c |-> [c0 EXCEPT !.ourConn = TRUE, !.conn = "dialed",
                                    !.msc = NewMetricsServiceClient("dialed")],
                   err |-> Nil, dialed |-> 1]
        ELSE [ok |-> TRUE,
              c |-> [c0 EXCEPT !.msc = NewMetricsServiceClient(c0.conn)],
              err |-> Nil, dialed |-> 0]

\* newClient(ctx, options): the client and error it returns, and whether it
\* dialed; dialOK is the outcome of grpc.DialContext within ctx
newClient(cfg, dialOK) ==
    LET c0 == [metadata |-> cfg.Headers,
               exportTimeout |-> cfg.Timeout,
               requestFunc |-> RequestFunc(cfg.Retry),
               temporalitySelector |-> cfg.TemporalitySelector,
               aggregationSelector |-> cfg.AggregationSelector,
               ourConn |-> FALSE, conn |-> cfg.GRPCConn, msc |-> "nil"]
    IN  IF c0.conn = "nil"
        THEN IF ~dialOK
             THEN [ok |-> FALSE, c |-> NoClient, err |-> DialErr, dialed |-> 1]
             ELSE [ok |-> TRUE,
                   c |-> [c0 EXCEPT !.ourConn = TRUE, !.conn = "dialed",
                                    !.msc = NewMetricsServiceClient("dialed")],
                   err |-> Nil, dialed |-> 1]
        ELSE [ok |-> TRUE,
              c |-> [c0 EXCEPT !.msc = NewMetricsServiceClient(c0.conn)],
              err |-> Nil, dialed |-> 0]

-----------------------------------------------------------------------------
(* The methods that complete in one step *)

\* mutant: a client that is shut down answers with the default temporality
TemporalityDefaultWhenClosed(c, k) ==
    IF c.conn = "nil" THEN "Cumulative" ELSE c.temporalitySelector[k]

\* Temporality(k)
Temporality(c, k) == c.temporalitySelector[k]

\* Aggregation(k)
Aggregation(c, k) == c.aggregationSelector[k]

\* mutant: ForceFlush reports success whatever the scope
ForceFlushNil(ctx) == Nil

\* ForceFlush(ctx): return ctx.Err()
ForceFlush(ctx) == ctx.err

\* mutant: the connection is closed whoever created it
ShutdownCloseAlways(c, ctx, closeErr) ==
    LET c1 == [c EXCEPT !.metadata = {}, !.requestFunc = "nil", !.msc = "nil"]
        err == ctx.err
    IN  IF c1.conn = "nil"
        THEN [panicked |-> TRUE, c |-> c1, closed |-> "nil", ret |-> Nil]
        ELSE [panicked |-> FALSE, c |-> [c1 EXCEPT !.conn = "nil"],
              closed |-> c1.conn,
              ret |-> IF err = Nil /\ closeErr # Nil THEN closeErr ELSE err]

\* mutant: the owned connection is closed only if the scope is still live
ShutdownSkipCloseOnExpiry(c, ctx, closeErr) ==
    LET c1 == [c EXCEPT !.metadata = {}, !.requestFunc = "nil", !.msc = "nil"]
        err == ctx.err
    IN  IF c1.ourConn /\ err = Nil
        THEN IF c1.conn = "nil"
             THEN [panicked |-> TRUE, c |-> c1, closed |-> "nil", ret |-> Nil]
             ELSE [panicked |-> FALSE, c |-> [c1 EXCEPT !.conn = "nil"],
                   closed |-> c1.conn,
                   ret |-> IF closeErr # Nil THEN closeErr ELSE err]
        ELSE [panicked |-> FALSE, c |-> [c1 EXCEPT !.conn = "nil"],
              closed |-> "nil", ret |-> err]

\* mutant: the close error takes precedence over the scope's error
ShutdownCloseErrFirst(c, ctx, closeErr) ==
    LET c1 == [c EXCEPT !.metadata = {}, !.requestFunc = "nil", !.msc = "nil"]
        err == ctx.err
    IN  IF c1.ourConn
        THEN IF c1.conn = "nil"
             THEN [panicked |-> TRUE, c |-> c1, closed |-> "nil", ret |-> Nil]
             ELSE [panicked |-> FALSE, c |-> [c1 EXCEPT !.conn = "nil"],
                   closed |-> c1.conn,
                   ret |-> IF closeErr # Nil THEN closeErr ELSE err]
        ELSE [panicked |-> FALSE, c |-> [c1 EXCEPT !.conn = "nil"],
              closed |-> "nil", ret |-> err]

\* mutant: a failing Close() leaves the connection reference in place
ShutdownKeepConnOnCloseErr(c, ctx, closeErr) ==
    LET c1 == [c EXCEPT !.metadata = {}, !.requestFunc = "nil", !.msc = "nil"]
        err == ctx.err
    IN  IF c1.ourConn
        THEN IF c1.conn = "nil"
             THEN [panicked |-> TRUE, c |-> c1, closed |-> "nil", ret |-> Nil]
             ELSE [panicked |-> FALSE,
                   c |-> IF closeErr # Nil THEN c1
                         ELSE [c1 EXCEPT !.conn = "nil"],
                   closed |-> c1.conn,
                   ret |-> IF err = Nil /\ closeErr # Nil THEN closeErr ELSE err]
        ELSE [panicked |-> FALSE, c |-> [c1 EXCEPT !.conn = "nil"],
              closed |-> "nil", ret |-> err]

\* mutant: Shutdown gives up the ownership of the connection it closed
ShutdownDropsOwnership(c, ctx, closeErr) ==
    LET c1 == [c EXCEPT !.metadata = {}, !.requestFunc = "nil", !.msc = "nil"]
        err == ctx.err
    IN  IF c1.ourConn
        THEN IF c1.conn = "nil"
             THEN [panicked |-> TRUE, c |-> c1, closed |-> "nil", ret |-> Nil]
             ELSE [panicked |-> FALSE,
                   c |-> [c1 EXCEPT !.conn = "nil", !.ourConn = FALSE],
                   closed |-> c1.conn,
                   ret |-> IF err = Nil /\ closeErr # Nil THEN closeErr ELSE err]
        ELSE [panicked |-> FALSE, c |-> [c1 EXCEPT !.conn = "nil"],
              closed |-> "nil", ret |-> err]

\* Shutdown(ctx): the client afterwards, the connection Close() was called
\* on ("nil" if none), the error returned, and whether the call panicked
\* instead of returning (Close() through a nil *grpc.ClientConn); closeErr is
\* what Close() returns
Shutdown(c, ctx, closeErr) ==
    LET c1 == [c EXCEPT !.metadata = {}, !.requestFunc = "nil", !.msc = "nil"]
        err == ctx.err
    IN  IF c1.ourConn
        THEN IF c1.conn = "nil"
             THEN [panicked |-> TRUE, c |-> c1, closed |-> "nil", ret |-> Nil]
             ELSE [panicked |-> FALSE, c |-> [c1 EXCEPT !.conn = "nil"],
                   closed |-> c1.conn,
                   ret |-> IF err = Nil /\ closeErr # Nil THEN closeErr ELSE err]
        ELSE [panicked |-> FALSE, c |-> [c1 EXCEPT !.conn = "nil"],
              closed |-> "nil", ret |-> err]

-----------------------------------------------------------------------------
(* UploadMetrics *)

\* mutant: the export timeout is added even past the parent's deadline
exportContextIgnoreParent(c, parent) ==
    LET ctx == IF c.exportTimeout > 0
               THEN Expire([parent EXCEPT !.hasDeadline = TRUE,
                                          !.left = c.exportTimeout])
               ELSE WithCancel(parent)
    IN  IF Cardinality(c.metadata) > 0
        THEN NewOutgoingContext(ctx, c.metadata)
        ELSE ctx

\* exportContext(parent)
exportContext(c, parent) ==
    LET ctx == IF c.exportTimeout > 0
               THEN WithTimeout(parent, c.exportTimeout)
               ELSE WithCancel(parent)
    IN  IF Cardinality(c.metadata) > 0
        THEN NewOutgoingContext(ctx, c.metadata)
        ELSE ctx

Callers == {"u1", "u2"}

\* one UploadMetrics call: where it stands (pc), the scope it was given and
\* the error that scope reported on entry, the export scope it derived and
\* whether that was released, the strategy it runs under, the Export
\* invocations made (attempts), those that returned an error (fails), the
\* error of the last one (last), the time left of the strategy's wait
\* (waitLeft), and how the call ended
IdleCall ==
    [pc |-> "idle", parent |-> Background, ectx |-> Background,
     entryErr |-> Nil, derived |-> FALSE, released |-> FALSE, rf |-> "nil",
     attempts |-> 0, fails |-> 0, last |-> Nil, waitLeft |-> 0,
     result |-> Nil, panicked |-> FALSE]

\* a caller that makes no calls
OffCall == [IdleCall EXCEPT !.pc = "off"]

InProgress(call) == call.pc \in {"attempt", "inflight", "wait"}

\* mutant: the call returns without running the deferred cancel()
ReturnNoRelease(call, err) ==
    [call EXCEPT !.pc = "done", !.result = err,
                 !.ectx = Background, !.parent = Background, !.waitLeft = 0]

\* the deferred cancel() runs and the call returns err: the export scope is
\* released and neither scope is looked at again
Return(call, err) ==
    [call EXCEPT !.pc = "done", !.result = err,
                 !.released = call.derived,
                 !.ectx = Background, !.parent = Background, !.waitLeft = 0]

\* a nil function or nil interface value is called: the deferred cancel()
\* runs and the panic leaves the call
Panic(call) == [Return(call, Nil) EXCEPT !.panicked = TRUE]

\* mutant: the pre-flight check of the scope is missing
UploadMetricsNoPreflight(c, ctx) ==
    LET call == [IdleCall EXCEPT !.parent = ctx, !.entryErr = ctx.err,
                                 !.ectx = exportContext(c, ctx),
                                 !.derived = TRUE, !.rf = c.requestFunc]
    IN  IF c.requestFunc = "nil" THEN Panic(call)
        ELSE [call EXCEPT !.pc = "attempt"]

\* mutant: a nil requestFunc is checked for, and an error returned
UploadMetricsNilChecked(c, ctx) ==
    IF ctx.err # Nil
    THEN Return([IdleCall EXCEPT !.parent = ctx, !.entryErr = ctx.err],
                ctx.err)
    ELSE LET call == [IdleCall EXCEPT !.parent = ctx,
                                      !.ectx = exportContext(c, ctx),
                                      !.derived = TRUE, !.rf = c.requestFunc]
         IN  IF c.requestFunc = "nil" THEN Return(call, PlainErr)
             ELSE [call EXCEPT !.pc = "attempt"]

\* UploadMetrics(ctx, protoMetrics) up to the call of c.requestFunc: the
\* pre-flight check of ctx, then the export scope; a nil requestFunc panics
UploadMetrics(c, ctx) ==
    IF ctx.err # Nil
    THEN Return([IdleCall EXCEPT !.parent = ctx, !.entryErr = ctx.err],
                ctx.err)
    ELSE LET call == [IdleCall EXCEPT !.parent = ctx,
                                      !.ectx = exportContext(c, ctx),
                                      !.derived = TRUE, !.rf = c.requestFunc]
         IN  IF c.requestFunc = "nil" THEN Panic(call)
             ELSE [call EXCEPT !.pc = "attempt"]

\* mutant: a failure with the code InvalidArgument is taken for success
uploadFnSwallowInvalid(err) ==
    IF Code(err) \in {"OK", "InvalidArgument"} THEN Nil ELSE err

\* the operation UploadMetrics hands to requestFunc, given the error Export
\* returned: a status code of OK is success (nil), anything else is err
uploadFn(err) == IF Code(err) = "OK" THEN Nil ELSE err

\* what a gRPC call made or waiting under a done context returns
FromContextError(ctx) == StatusErr(ctx.err.code, <<>>)

\* the replies of the remote Export: success, a retryable failure with or
\* without a retry delay of one tick, a failure that is not retryable
Responses ==
    {Nil,
     StatusErr("Unavailable", <<>>),
     StatusErr("Unavailable", <<RetryInfo(Delay(0, 1))>>),
     StatusErr("InvalidArgument", <<>>)}

\* the retry strategy after one run of the operation returned err:
\* success and failures that are not retryable end the call with err; a
\* retryable failure makes it wait max(throttle delay, backoff) and run the
\* operation again, unless a limited strategy gives up and returns the
\* failure wrapped.  A disabled retry policy runs the operation once.
requestFunc(call, err, bOff, giveUp) ==
    LET r == retryable(err)
    IN  IF err = Nil THEN Return(call, Nil)
        ELSE IF call.rf = "direct" THEN Return(call, err)
        ELSE IF ~r.retry THEN Return(call, err)
        ELSE IF call.rf = "limited" /\ giveUp THEN Return(call, WrapErr(err))
        ELSE [call EXCEPT !.pc = "wait", !.waitLeft = Max(r.delay, bOff)]

\* Export returned err: the operation's result goes to the strategy
Outcome(call, err, bOff, giveUp) ==
    LET ret == uploadFn(err)
    IN  requestFunc([call EXCEPT !.last = err,
                                 !.fails = IF ret = Nil THEN @ ELSE @ + 1],
                    ret, bOff, giveUp)

-----------------------------------------------------------------------------
(* The last call of a method that completes in one step *)

NoOp ==
    [op |-> "none", scopeErr |-> Nil, ret |-> Nil,
     panicked |-> FALSE, closed |-> "nil", closeErr |-> Nil,
     kind |-> "none", value |-> "none"]

Op(name, scopeErr, ret) ==
    [NoOp EXCEPT !.op = name, !.scopeErr = scopeErr, !.ret = ret]

\* what the classifier specification holds before retryable ran
NoDecision == [done |-> FALSE, retry |-> FALSE, delay |-> 0]

-----------------------------------------------------------------------------
(* The client's specification *)

Init ==
    /\ built = "no"
    /\ newErr = Nil
    /\ client = NoClient
    /\ closeCalls = [id \in ConnIds |-> 0]
    /\ dials = 0
    /\ shutdowns = 0
    /\ calls = [p \in Callers |-> IF p = "u1" THEN IdleCall ELSE OffCall]
    /\ lastOp = NoOp
    /\ clsIn = Nil
    /\ clsOut = NoDecision

\* New / newClient
Construct ==
    /\ built = "no"
    /\ \E cfg \in Configs, dialOK \in BOOLEAN :
          LET r == newClient(cfg, dialOK)
          IN  /\ built' = IF r.ok THEN "ok" ELSE "failed"
              /\ newErr' = r.err
              /\ client' = r.c
              /\ dials' = dials + r.dialed
    /\ UNCHANGED <<closeCalls, shutdowns, calls, lastOp, clsIn, clsOut>>

TemporalityCall ==
    /\ built = "ok"
    /\ \E k \in InstrumentKinds :
          lastOp' = [Op("Temporality", Nil, Nil) EXCEPT
                        !.kind = k, !.value = Temporality(client, k)]
    /\ UNCHANGED <<built, newErr, client, closeCalls, dials, shutdowns, calls,
                   clsIn, clsOut>>

AggregationCall ==
    /\ built = "ok"
    /\ \E k \in InstrumentKinds :
          lastOp' = [Op("Aggregation", Nil, Nil) EXCEPT
                        !.kind = k, !.value = Aggregation(client, k)]
    /\ UNCHANGED <<built, newErr, client, closeCalls, dials, shutdowns, calls,
                   clsIn, clsOut>>

ForceFlushCall ==
    /\ built = "ok"
    /\ \E ctx \in Scopes :
          lastOp' = Op("ForceFlush", ctx.err, ForceFlush(ctx))
    /\ UNCHANGED <<built, newErr, client, closeCalls, dials, shutdowns, calls,
                   clsIn, clsOut>>

\* Shutdown runs when no UploadMetrics call is in progress (the exporter
\* synchronizes access to the client's methods)
ShutdownCall ==
    /\ built = "ok"
    /\ shutdowns < MaxShutdowns
    /\ \A p \in Callers : ~InProgress(calls[p])
    /\ \E ctx \in Scopes, closeErr \in {Nil, CloseErr} :
          LET r == Shutdown(client, ctx, closeErr)
          IN  /\ client' = r.c
              /\ closeCalls' =
                    IF r.closed = "nil" THEN closeCalls
                    ELSE [closeCalls EXCEPT ![r.closed] = @ + 1]
              /\ lastOp' = [Op("Shutdown", ctx.err, r.ret) EXCEPT
                               !.panicked = r.panicked, !.closed = r.closed,
                               !.closeErr = IF r.closed = "nil" THEN Nil
                                            ELSE closeErr]
    /\ shutdowns' = shutdowns + 1
    /\ UNCHANGED <<built, newErr, dials, calls, clsIn, clsOut>>

\* mutant: a call on a client without connection dials a new one first
UploadStartReconnects(p) ==
    /\ built = "ok"
    /\ calls[p].pc \in {"idle", "done"}
    /\ LET c == IF client.conn = "nil"
                THEN [client EXCEPT !.conn = "dialed", !.msc = "dialed",
                                    !.requestFunc = "direct"]
                ELSE client
       IN  /\ client' = c
           /\ \E ctx \in Scopes :
                 calls' = [calls EXCEPT ![p] = UploadMetrics(c, ctx)]
    /\ UNCHANGED <<built, newErr, closeCalls, dials, shutdowns, lastOp,
                   clsIn, clsOut>>

UploadStart(p) ==
    /\ built = "ok"
    /\ calls[p].pc \in {"idle", "done"}
    /\ \E ctx \in Scopes :
          calls' = [calls EXCEPT ![p] = UploadMetrics(client, ctx)]
    /\ UNCHANGED <<built, newErr, client, closeCalls, dials, shutdowns, lastOp,
                   clsIn, clsOut>>

\* mutant: an Export invoked under a done context still goes to the remote
ExportCallNoFailFast(p) ==
    /\ calls[p].pc = "attempt"
    /\ LET call == calls[p]
           inv == [call EXCEPT !.attempts = @ + 1]
       IN  IF client.msc = "nil"
           THEN calls' = [calls EXCEPT ![p] = Panic(call)]
           ELSE calls' = [calls EXCEPT ![p] =
                             [inv EXCEPT !.pc = "inflight"]]
    /\ UNCHANGED <<built, newErr, client, closeCalls, dials, shutdowns, lastOp,
                   clsIn, clsOut>>

\* mutant: the export scope is kept in a place the calls share, so that an
\* Export is failed by the done scope of any call in progress
ExportCallSharedScope(p) ==
    /\ calls[p].pc = "attempt"
    /\ LET call == calls[p]
           inv == [call EXCEPT !.attempts = @ + 1]
           done == {q \in Callers :
                       InProgress(calls[q]) /\ calls[q].ectx.err # Nil}
       IN  IF client.msc = "nil"
           THEN calls' = [calls EXCEPT ![p] = Panic(call)]
           ELSE IF done # {}
           THEN \E bOff \in 0..MaxBackoff, giveUp \in BOOLEAN :
                   calls' = [calls EXCEPT ![p] =
                                Outcome(inv,
                                        FromContextError(
                                            calls[CHOOSE q \in done : TRUE].ectx),
                                        bOff, giveUp)]
           ELSE calls' = [calls EXCEPT ![p] =
                             [inv EXCEPT !.pc = "inflight"]]
    /\ UNCHANGED <<built, newErr, client, closeCalls, dials, shutdowns, lastOp,
                   clsIn, clsOut>>

\* c.msc.Export(iCtx, ...) is invoked: through a nil stub it panics, under a
\* done context it fails at once, otherwise the request goes to the remote
ExportCall(p) ==
    /\ calls[p].pc = "attempt"
    /\ LET call == calls[p]
           inv == [call EXCEPT !.attempts = @ + 1]
       IN  IF client.msc = "nil"
           THEN calls' = [calls EXCEPT ![p] = Panic(call)]
           ELSE IF call.ectx.err # Nil
           THEN \E bOff \in 0..MaxBackoff, giveUp \in BOOLEAN :
                   calls' = [calls EXCEPT ![p] =
                                Outcome(inv, FromContextError(call.ectx),
                                        bOff, giveUp)]
           ELSE calls' = [calls EXCEPT ![p] =
                             [inv EXCEPT !.pc = "inflight"]]
    /\ UNCHANGED <<built, newErr, client, closeCalls, dials, shutdowns, lastOp,
                   clsIn, clsOut>>

\* the Export in flight returns: aborted if its context is done, else with
\* the remote's reply
ExportReturn(p) ==
    /\ calls[p].pc = "inflight"
    /\ LET call == calls[p]
       IN  \E err \in (IF call.ectx.err # Nil
                       THEN {FromContextError(call.ectx)}
                       ELSE Responses),
              bOff \in 0..MaxBackoff, giveUp \in BOOLEAN :
              calls' = [calls EXCEPT ![p] =
                           Outcome(call, err, bOff, giveUp)]
    /\ UNCHANGED <<built, newErr, client, closeCalls, dials, shutdowns, lastOp,
                   clsIn, clsOut>>

\* the strategy's wait ends: with the context's error if it is done, with
\* the next run of the operation if the delay has passed
WaitDone(p) ==
    /\ calls[p].pc = "wait"
    /\ \/ /\ calls[p].ectx.err # Nil
          /\ calls' = [calls EXCEPT ![p] = Return(@, @.ectx.err)]
       \/ /\ calls[p].waitLeft <= 0
          /\ calls[p].attempts < MaxAttempts
          /\ calls' = [calls EXCEPT ![p].pc = "attempt"]
    /\ UNCHANGED <<built, newErr, client, closeCalls, dials, shutdowns, lastOp,
                   clsIn, clsOut>>

\* the caller cancels the scope it passed to a call in progress
CancelScope(p) ==
    /\ InProgress(calls[p])
    /\ calls[p].parent.err = Nil
    /\ calls' = [calls EXCEPT ![p].parent = Cancel(@),
                              ![p].ectx = Cancel(@)]
    /\ UNCHANGED <<built, newErr, client, closeCalls, dials, shutdowns, lastOp,
                   clsIn, clsOut>>

\* a tick of the clock: the scopes of the calls in progress come one tick
\* closer to their deadlines, and the waits to their ends
Tick ==
    /\ calls' = [p \in Callers |->
                    IF InProgress(calls[p])
                    THEN [calls[p] EXCEPT !.parent = Elapse(@),
                                          !.ectx = Elapse(@),
                                          !.waitLeft = Max(@ - 1, 0)]
                    ELSE calls[p]]
    /\ UNCHANGED <<built, newErr, client, closeCalls, dials, shutdowns, lastOp,
                   clsIn, clsOut>>

Next ==
    \/ Construct
    \/ TemporalityCall
    \/ AggregationCall
    \/ ForceFlushCall
    \/ ShutdownCall
    \/ \E p \in Callers : UploadStart(p)
    \/ \E p \in Callers : ExportCall(p)
    \/ \E p \in Callers : ExportReturn(p)
    \/ \E p \in Callers : WaitDone(p)
    \/ \E p \in Callers : CancelScope(p)
    \/ Tick

Spec == Init /\ [][Next]_vars

-----------------------------------------------------------------------------
(* Uploads on an open client, with the scheduling that lets them proceed *)

\* the clients newClient returns
OpenClients == {newClient(cfg, TRUE).c : cfg \in Configs}

\* the state after a successful New
InitOpen ==
    /\ built = "ok"
    /\ newErr = Nil
    /\ client \in OpenClients
    /\ closeCalls = [id \in ConnIds |-> 0]
    /\ dials = (IF client.ourConn THEN 1 ELSE 0)
    /\ shutdowns = 0
    /\ calls = [p \in Callers |-> IF p = "u1" THEN IdleCall ELSE OffCall]
    /\ lastOp = NoOp
    /\ clsIn = Nil
    /\ clsOut = NoDecision

NextUpload ==
    \/ \E p \in Callers : UploadStart(p)
    \/ \E p \in Callers : ExportCall(p)
    \/ \E p \in Callers : ExportReturn(p)
    \/ \E p \in Callers : WaitDone(p)
    \/ \E p \in Callers : CancelScope(p)
    \/ Tick

\* a call that can invoke Export does so, an Export in flight returns, and
\* a wait that can end ends; the clock and the callers are under no
\* obligation
SpecFair ==
    /\ InitOpen
    /\ [][NextUpload]_vars
    /\ \A p \in Callers :
          /\ WF_vars(ExportCall(p))
          /\ WF_vars(ExportReturn(p))
          /\ WF_vars(WaitDone(p))

-----------------------------------------------------------------------------
(* Concurrent use of an open client *)

\* open clients with retrying disabled, on a supplied connection, with the
\* selectors that tell the instrument kinds apart
ConcurrentClients ==
    {c \in OpenClients :
        /\ c.requestFunc = "direct"
        /\ c.conn = "supplied"
        /\ c.temporalitySelector["SyncCounter"] = "Delta"}

\* the state after a successful New, with two callers of UploadMetrics
InitConcurrent ==
    /\ built = "ok"
    /\ newErr = Nil
    /\ client \in ConcurrentClients
    /\ closeCalls = [id \in ConnIds |-> 0]
    /\ dials = 0
    /\ shutdowns = 0
    /\ calls = [p \in Callers |-> IdleCall]
    /\ lastOp = NoOp
    /\ clsIn = Nil
    /\ clsOut = NoDecision

\* the steps of UploadMetrics calls of either caller, interleaved with each
\* other and with calls of Temporality, Aggregation and ForceFlush
NextConcurrent ==
    \/ TemporalityCall
    \/ AggregationCall
    \/ ForceFlushCall
    \/ \E p \in Callers : UploadStart(p)
    \/ \E p \in Callers : ExportCall(p)
    \/ \E p \in Callers : ExportReturn(p)
    \/ \E p \in Callers : CancelScope(p)
    \/ Tick

SpecConcurrent == InitConcurrent /\ [][NextConcurrent]_vars

-----------------------------------------------------------------------------
(* The classifier's specification: retryable applied to bounded errors *)

\* retry delays: the nil message, and seconds and nanos of either sign
DelayValues ==
    {NoDelay} \cup
    {Delay(sec, n) : sec \in (0 - MaxSecs)..MaxSecs,
                     n \in {0 - (Second - 1), 0, Second - 1}}

Details == {DebugInfo} \cup {RetryInfo(d) : d \in DelayValues}

DetailLists == UNION {[1..n -> Details] : n \in 0..MaxDetails}

\* nil, errors that are no gRPC status, and status errors of every code
ClassifierInputs ==
    {Nil, PlainErr, Canceled, DeadlineExceeded} \cup
    {StatusErr(c, ds) : c \in Codes \ {"OK"}, ds \in DetailLists}

InitClassifier ==
    /\ built = "no"
    /\ newErr = Nil
    /\ client = NoClient
    /\ closeCalls = [id \in ConnIds |-> 0]
    /\ dials = 0
    /\ shutdowns = 0
    /\ calls = [p \in Callers |-> OffCall]
    /\ lastOp = NoOp
    /\ clsIn \in ClassifierInputs
    /\ clsOut = NoDecision

Classify ==
    /\ ~clsOut.done
    /\ clsOut' = [done |-> TRUE, retry |-> retryable(clsIn).retry,
                  delay |-> retryable(clsIn).delay]
    /\ UNCHANGED <<built, newErr, client, closeCalls, dials, shutdowns, calls,
                   lastOp, clsIn>>

NextClassifier == Classify

SpecClassifier == InitClassifier /\ [][NextClassifier]_vars

-----------------------------------------------------------------------------
(* Properties *)

\* the status codes the specification lists as retryable
StatedRetryable ==
    {"Canceled", "DeadlineExceeded", "ResourceExhausted", "Aborted",
     "OutOfRange", "Unavailable", "DataLoss"}

\* C1: a connection supplied by the caller never receives a Close() call,
\* whatever operations run and however often Shutdown is called; a connection
\* that was closed was closed by a client that owns it.
C1_SuppliedConnNeverClosed ==
    /\ closeCalls["supplied"] = 0
    /\ \A id \in ConnIds : closeCalls[id] > 0 => built = "ok" /\ client.ourConn

\* a client built on a supplied connection was shut down twice, the second
\* time after an upload, and the connection is still open
C1_Witness ==
    /\ built = "ok" /\ ~client.ourConn
    /\ shutdowns = 2
    /\ lastOp.op = "Shutdown" /\ ~lastOp.panicked
    /\ \E p \in Callers : calls[p].pc = "done"
    /\ closeCalls["supplied"] = 0

\* C2: a client that dialed its connection closes it exactly once: no Close()
\* before the first Shutdown call, one Close() once Shutdown has been called,
\* whether its scope was live or expired, and never a second one.
C2_OwnedConnClosedOnce ==
    built = "ok" /\ client.ourConn =>
        /\ closeCalls["dialed"] = (IF shutdowns >= 1 THEN 1 ELSE 0)
        /\ (lastOp.op = "Shutdown" /\ shutdowns = 1 => lastOp.closed = "dialed")

\* the owning client was shut down with an expired scope, which closed the
\* dialed connection
C2_Witness ==
    /\ built = "ok" /\ client.ourConn
    /\ shutdowns = 1
    /\ lastOp.op = "Shutdown" /\ lastOp.scopeErr = DeadlineExceeded
    /\ closeCalls["dialed"] = 1

\* C3: when Shutdown returns, it returns the scope's error if the scope is
\* expired, else the close error if the connection was closed and closing
\* failed, else nil; a client that does not own its connection makes no
\* Close() call and returns no close error.
C3_ShutdownReturn ==
    lastOp.op = "Shutdown" /\ ~lastOp.panicked =>
        /\ lastOp.ret = (IF lastOp.scopeErr # Nil THEN lastOp.scopeErr
                         ELSE IF lastOp.closeErr # Nil THEN lastOp.closeErr
                         ELSE Nil)
        /\ (~client.ourConn =>
               lastOp.closed = "nil" /\ lastOp.ret.kind # "close")

\* Shutdown ran with an expired scope, closing the connection failed, and
\* the scope's error was returned
C3_Witness ==
    /\ lastOp.op = "Shutdown"
    /\ lastOp.scopeErr = Canceled
    /\ lastOp.closed = "dialed" /\ lastOp.closeErr = CloseErr
    /\ lastOp.ret = Canceled

\* C4: an UploadMetrics call whose scope is already cancelled or past its
\* deadline makes no Export invocation, derives no export scope, does not
\* enter the retry strategy, and returns the scope's error.
C4_PreflightCancellation ==
    \A p \in Callers :
        calls[p].entryErr # Nil =>
            /\ calls[p].pc = "done"
            /\ calls[p].attempts = 0
            /\ ~calls[p].derived
            /\ calls[p].rf = "nil"
            /\ ~calls[p].panicked
            /\ calls[p].result = calls[p].entryErr

\* a call on an open client with a scope past its deadline returned
C4_Witness ==
    \E p \in Callers :
        /\ calls[p].pc = "done"
        /\ calls[p].entryErr = DeadlineExceeded
        /\ calls[p].result = DeadlineExceeded
        /\ client.requestFunc # "nil"

\* C5: ForceFlush returns the error of the scope it was given (nil for a
\* live scope), and a ForceFlush call changes nothing else: no field of the
\* client, no connection, no upload call.
C5_ForceFlushFrame ==
    /\ [](lastOp.op = "ForceFlush" => lastOp.ret = lastOp.scopeErr)
    /\ [][lastOp'.op = "ForceFlush" /\ lastOp' # lastOp =>
            UNCHANGED <<built, newErr, client, closeCalls, dials, shutdowns,
                        calls>>]_vars

\* ForceFlush was called with a cancelled scope on a client that is shut
\* down, while an upload had been made
C5_Witness ==
    /\ lastOp.op = "ForceFlush" /\ lastOp.ret = Canceled
    /\ client.conn = "nil" /\ shutdowns >= 1

\* the first retry-delay detail of a detail list, if it has one
RECURSIVE FirstRetryInfo(_)
FirstRetryInfo(ds) ==
    IF ds = <<>> THEN <<>>
    ELSE IF Head(ds).type = "RetryInfo" THEN <<Head(ds)>>
    ELSE FirstRetryInfo(Tail(ds))

\* the value of a retry delay as a number of ticks, computed without bound
Exact(d) == IF d.set THEN d.secs * Second + d.nanos ELSE 0

InRange(x) == MinDuration <= x /\ x <= MaxDuration

\* the status code of the error handed to the classifier
ClsCode ==
    IF clsIn.kind = "status" THEN clsIn.code
    ELSE IF clsIn.kind = "nil" THEN "OK"
    ELSE "Unknown"

\* C6: the classifier answers retryable = TRUE exactly for the seven status
\* codes listed, and for every other status code, with or without a
\* retry-delay detail, retryable = FALSE and a throttle delay of 0.
C6_RetryableCodes ==
    clsOut.done =>
        /\ clsOut.retry <=> ClsCode \in StatedRetryable
        /\ (ClsCode \notin StatedRetryable => ~clsOut.retry /\ clsOut.delay = 0)

\* a failure that is not retryable and carries a retry delay was classified
C6_Witness ==
    /\ clsOut.done /\ ~clsOut.retry /\ clsOut.delay = 0
    /\ clsIn = StatusErr("InvalidArgument", <<RetryInfo(Delay(1, 0))>>)

\* C7 as stated: for a retryable failure the throttle delay is exactly the
\* value D of its retry-delay detail, and zero if it has none.
C7_ExactDelay ==
    clsOut.done /\ clsOut.retry =>
        LET ri == FirstRetryInfo(clsIn.details)
        IN  clsOut.delay = (IF ri = <<>> THEN 0 ELSE Exact(ri[1].delay))

\* C7 amended: for a retryable failure the throttle delay is the value D of
\* its first retry-delay detail whenever D's seconds, as a duration, and D
\* itself fit the range of a duration; otherwise it is the largest duration
\* (positive seconds) or the smallest (negative seconds); with no
\* retry-delay detail it is zero.
C7_SaturatedDelay ==
    clsOut.done /\ clsOut.retry =>
        LET ri == FirstRetryInfo(clsIn.details)
            d == ri[1].delay
        IN  IF ri = <<>> THEN clsOut.delay = 0
            ELSE IF InRange(d.secs * Second) /\ InRange(Exact(d))
            THEN clsOut.delay = Exact(d)
            ELSE clsOut.delay = (IF d.secs < 0 THEN MinDuration
                                 ELSE MaxDuration)

\* a retryable failure whose retry delay follows another detail was given
\* that delay
C7_Witness ==
    /\ clsOut.done /\ clsOut.retry
    /\ clsIn = StatusErr("Unavailable", <<DebugInfo, RetryInfo(Delay(1, 0))>>)
    /\ clsOut.delay = Second

\* the step in which caller p's UploadMetrics call derives its export scope
Derives(p) ==
    /\ ~InProgress(calls[p])
    /\ InProgress(calls'[p])

C9_RetryUntilSuccess ==
    /\ [](\A p \in Callers :
             calls[p].pc = "done" /\ calls[p].rf = "unlimited" =>
                /\ (calls[p].result # Nil /\ ~calls[p].panicked =>
                       \/ calls[p].result.kind = "ctx"
                       \/ /\ calls[p].result.kind = "status"
                          /\ calls[p].result.code \notin StatedRetryable)
                /\ (calls[p].attempts >= 1 /\ calls[p].last = Nil =>
                       /\ calls[p].result = Nil
                       /\ calls[p].attempts = calls[p].fails + 1))
    /\ [][\A p \in Callers :
             InProgress(calls[p]) /\ InProgress(calls'[p]) =>
                /\ calls'[p].ectx.hasDeadline = calls[p].ectx.hasDeadline
                /\ calls'[p].ectx.left <= calls[p].ectx.left
                /\ calls'[p].ectx.md = calls[p].ectx.md
                /\ (calls[p].ectx.err # Nil =>
                       calls'[p].ectx.err = calls[p].ectx.err)]_vars

\* a call under an export timeout and unlimited retries returned nil on its
\* third invocation, after two failures
C9_Witness ==
    \E p \in Callers :
        /\ calls[p].pc = "done" /\ calls[p].rf = "unlimited"
        /\ client.exportTimeout > 0
        /\ calls[p].result = Nil
        /\ calls[p].attempts = 3 /\ calls[p].fails = 2

\* C10: a call goes on (waits, or invokes Export again) only after failures
\* with retryable codes; when the first invocation fails with any other
\* code, the call ends with that one invocation and returns that failure.
C10_NonRetryableSurfaces ==
    \A p \in Callers :
        /\ (InProgress(calls[p]) /\ calls[p].last # Nil =>
               /\ calls[p].last.kind = "status"
               /\ calls[p].last.code \in StatedRetryable)
        /\ (/\ calls[p].pc = "done" /\ calls[p].attempts >= 1
            /\ calls[p].last # Nil
            /\ calls[p].last.code \notin StatedRetryable
            => /\ calls[p].result = calls[p].last
               /\ (calls[p].fails = 1 => calls[p].attempts = 1))

\* under a retrying strategy, the first invocation failed with
\* InvalidArgument and the call returned that failure
C10_Witness ==
    \E p \in Callers :
        /\ calls[p].pc = "done" /\ calls[p].rf = "unlimited"
        /\ calls[p].attempts = 1
        /\ calls[p].result = StatusErr("InvalidArgument", <<>>)


\* C11: UploadMetrics swallows no error.  A call that returned nil made at
\* least one Export invocation and its last invocation reported the code OK;
\* an invocation counts as a failure exactly if its code is not OK, and the
\* strategy waits for another run only after a failure; a call whose last
\* invocation failed, or whose invocations all failed, returned an error.
C11_NoErrorSwallowed ==
    \A p \in Callers :
        /\ (calls[p].pc = "wait" =>
               calls[p].last # Nil /\ Code(calls[p].last) # "OK")
        /\ (calls[p].pc = "done" /\ ~calls[p].panicked =>
               /\ (calls[p].result = Nil =>
                      /\ calls[p].attempts >= 1
                      /\ Code(calls[p].last) = "OK"
                      /\ calls[p].fails < calls[p].attempts)
               /\ (calls[p].attempts >= 1 /\ Code(calls[p].last) # "OK" =>
                      calls[p].result # Nil)
               /\ (calls[p].fails = calls[p].attempts =>
                      calls[p].result # Nil))

\* a limited strategy gave up after invocations that all failed, and the
\* call returned the last failure, wrapped
C11_Witness ==
    \E p \in Callers :
        /\ calls[p].pc = "done" /\ calls[p].rf = "limited"
        /\ calls[p].attempts >= 2 /\ calls[p].fails = calls[p].attempts
        /\ calls[p].result = WrapErr(calls[p].last)


\* the four fields Shutdown sets to nil
Cleared(c) ==
    /\ c.metadata = {}
    /\ c.requestFunc = "nil"
    /\ c.msc = "nil"
    /\ c.conn = "nil"

\* C12: after every Shutdown call the client's header metadata, retry
\* strategy, service stub and connection reference are nil, whatever the
\* scope's state, whether the client owns its connection, and whether
\* Close() succeeded; this holds from the step of the call on, also for a
\* client that was open with headers before it.
C12_ShutdownClears ==
    /\ [](lastOp.op = "Shutdown" => Cleared(client))
    /\ [][shutdowns' = shutdowns + 1 =>
            /\ lastOp'.op = "Shutdown"
            /\ Cleared(client')]_vars

\* Shutdown of an owning client with a live scope: Close() failed, its error
\* was returned, and the fields are nil
C12_Witness ==
    /\ lastOp.op = "Shutdown" /\ ~lastOp.panicked
    /\ lastOp.scopeErr = Nil
    /\ lastOp.closed = "dialed" /\ lastOp.closeErr = CloseErr
    /\ lastOp.ret = CloseErr
    /\ client.ourConn /\ Cleared(client)


\* the callers holding an export scope that was derived and not released
Unreleased == {p \in Callers : calls[p].derived /\ ~calls[p].released}

\* C13: a call that is over has released the export scope it derived,
\* however it ended; the export scopes derived and not yet released are those
\* of the calls in progress past the pre-flight check, so there are as many
\* of the one as of the other, and none when no call is in progress; a call
\* stopped by the pre-flight check derived no scope.
C13_ScopeReleased ==
    /\ Unreleased = {p \in Callers : InProgress(calls[p])}
    /\ Cardinality(Unreleased) =
          Cardinality({p \in Callers : InProgress(calls[p])})
    /\ \A p \in Callers :
          /\ (calls[p].pc = "done" /\ calls[p].derived => calls[p].released)
          /\ (calls[p].entryErr # Nil => ~calls[p].derived)
          /\ (calls[p].pc \in {"idle", "off"} => ~calls[p].derived)

\* a call that had failed and was waiting when its scope was cancelled
\* returned the cancellation, and its export scope is released
C13_Witness ==
    \E p \in Callers :
        /\ calls[p].pc = "done"
        /\ calls[p].fails >= 1
        /\ calls[p].result = Canceled
        /\ calls[p].derived /\ calls[p].released
        /\ Unreleased = {}


\* C14: while a call is in progress, a cancelled or expired scope of the
\* caller means a done export scope; once the export scope is done, no
\* Export invocation goes to the remote any more, every invocation that ends
\* ends with the scope's error as its status, the call can only end with an
\* error, and it does end.
C14_CancellationEndsRetrying ==
    /\ [](\A p \in Callers :
             InProgress(calls[p]) /\ calls[p].parent.err # Nil =>
                calls[p].ectx.err # Nil)
    /\ [][\A p \in Callers :
             InProgress(calls[p]) /\ calls[p].ectx.err # Nil =>
                /\ (calls'[p].pc = "inflight" => calls[p].pc = "inflight")
                /\ (calls'[p].attempts # calls[p].attempts
                      \/ calls'[p].last # calls[p].last =>
                       calls'[p].last = FromContextError(calls[p].ectx))
                /\ (calls'[p].pc = "done" =>
                       calls'[p].result # Nil /\ ~calls'[p].panicked)]_vars
    /\ \A p \in Callers :
          (InProgress(calls[p]) /\ calls[p].ectx.err # Nil)
             ~> (calls[p].pc = "done" /\ calls[p].result # Nil)

\* under unlimited retries a call failed, was retried, had its second
\* Export aborted by the cancellation of the caller's scope, and returned
\* the cancellation
C14_Witness ==
    \E p \in Callers :
        /\ calls[p].pc = "done" /\ calls[p].rf = "unlimited"
        /\ calls[p].attempts = 2 /\ calls[p].fails = 2
        /\ calls[p].last = StatusErr("Canceled", <<>>)
        /\ calls[p].result = Canceled


\* C15: construction ends in one of two ways.  Either it returned a client
\* and no error, and that client, until Shutdown is called, has its
\* connection set and its stub bound to that connection; or it returned an
\* error and no client, which is the case exactly when no connection was
\* supplied and the dial failed, and the error is the dial error.  No
\* operation runs on a client that was not returned.
C15_ConstructionAllOrNothing ==
    /\ (built = "ok" =>
           /\ newErr = Nil
           /\ client # NoClient
           /\ (shutdowns = 0 =>
                  /\ client.conn \in ConnIds
                  /\ client.msc = NewMetricsServiceClient(client.conn)))
    /\ (built = "failed" =>
           /\ newErr = DialErr
           /\ client = NoClient
           /\ dials = 1
           /\ lastOp = NoOp /\ shutdowns = 0
           /\ \A p \in Callers : calls[p].pc \in {"idle", "off"})
    /\ \A cfg \in Configs, dialOK \in BOOLEAN :
          LET r == newClient(cfg, dialOK)
          IN  /\ r.ok <=> ~(cfg.GRPCConn = "nil" /\ ~dialOK)
              /\ (~r.ok => r.err = DialErr /\ r.c = NoClient)
              /\ (r.ok => r.err = Nil /\ r.c.conn # "nil" /\ r.c.msc # "nil")

\* construction without a supplied connection failed to dial
C15_Witness ==
    /\ built = "failed"
    /\ newErr = DialErr
    /\ client = NoClient
    /\ dials = 1

\* C16: for a constructed client, ourConn is true exactly if newClient
\* dialed; a client built on a supplied connection made no dial and has
\* ourConn false; and after construction no step, of whatever operation,
\* changes ourConn.
C16_OwnershipFixed ==
    /\ [](built = "ok" =>
             /\ client.ourConn <=> dials = 1
             /\ (client.conn = "supplied" => ~client.ourConn /\ dials = 0)
             /\ (client.conn = "dialed" => client.ourConn))
    /\ [](\A cfg \in Configs, dialOK \in BOOLEAN :
             cfg.GRPCConn = "supplied" =>
                /\ newClient(cfg, dialOK).dialed = 0
                /\ ~newClient(cfg, dialOK).c.ourConn)
    /\ [][built = "ok" =>
            client'.ourConn = client.ourConn /\ dials' = dials]_vars

\* a client that dialed its connection still has ourConn set after an
\* upload and two Shutdown calls
C16_Witness ==
    /\ built = "ok" /\ client.ourConn /\ dials = 1
    /\ shutdowns = 2
    /\ \E p \in Callers : calls[p].pc = "done"


\* what one tick of the clock makes of a call
Ticked(call) ==
    IF InProgress(call)
    THEN [call EXCEPT !.parent = Elapse(@), !.ectx = Elapse(@),
                      !.waitLeft = Max(@ - 1, 0)]
    ELSE call

\* the records a call of client c can pass to from the record call when it
\* is the only call there is: by a step of its own, by the cancellation of
\* its scope, or by a tick of the clock
SoloSteps(c, call) ==
    LET inv == [call EXCEPT !.attempts = @ + 1]
        own ==
          IF call.pc \in {"idle", "done"}
          THEN {UploadMetrics(c, ctx) : ctx \in Scopes}
          ELSE IF call.pc = "attempt"
          THEN IF c.msc = "nil" THEN {Panic(call)}
               ELSE IF call.ectx.err # Nil
               THEN {Outcome(inv, FromContextError(call.ectx), bOff, giveUp) :
                        bOff \in 0..MaxBackoff, giveUp \in BOOLEAN}
               ELSE {[inv EXCEPT !.pc = "inflight"]}
          ELSE IF call.pc = "inflight"
          THEN UNION {{Outcome(call, err, bOff, giveUp) :
                          bOff \in 0..MaxBackoff, giveUp \in BOOLEAN} :
                      err \in (IF call.ectx.err # Nil
                               THEN {FromContextError(call.ectx)}
                               ELSE Responses)}
          ELSE IF call.pc = "wait"
          THEN (IF call.ectx.err # Nil
                THEN {Return(call, call.ectx.err)} ELSE {})
               \cup (IF call.waitLeft <= 0 /\ call.attempts < MaxAttempts
                     THEN {[call EXCEPT !.pc = "attempt"]} ELSE {})
          ELSE {}
        cancelled ==
          IF InProgress(call) /\ call.parent.err = Nil
          THEN {[call EXCEPT !.parent = Cancel(@), !.ectx = Cancel(@)]}
          ELSE {}
    IN  own \cup cancelled \cup {Ticked(call)}

C18_SelectorsDelegated ==
    /\ [](/\ (lastOp.op = "Temporality" =>
                 lastOp.value = client.temporalitySelector[lastOp.kind])
          /\ (lastOp.op = "Aggregation" =>
                 lastOp.value = client.aggregationSelector[lastOp.kind])
          /\ \A cfg \in Configs :
                LET c == newClient(cfg, TRUE).c
                IN  /\ c.temporalitySelector = cfg.TemporalitySelector
                    /\ c.aggregationSelector = cfg.AggregationSelector)
    /\ [][lastOp'.op \in {"Temporality", "Aggregation"} /\ lastOp' # lastOp =>
            UNCHANGED <<built, newErr, client, closeCalls, dials, shutdowns,
                        calls>>]_vars
    /\ [][built = "ok" =>
            /\ client'.temporalitySelector = client.temporalitySelector
            /\ client'.aggregationSelector = client.aggregationSelector]_vars

\* after Shutdown, Temporality was asked for a kind for which the configured
\* selector does not give the default, and answered with the selector's value
C18_Witness ==
    /\ shutdowns >= 1 /\ client.conn = "nil"
    /\ lastOp.op = "Temporality" /\ lastOp.kind = "SyncCounter"
    /\ lastOp.value = "Delta"

\* C19: from the first Shutdown call on, the connection reference, the
\* stub, the retry strategy and the headers of the client are nil in every
\* state, whatever operation runs next, a further Shutdown included; the
\* client stays constructed and the count of Shutdown calls never falls.
C19_ClosedIsFinal ==
    /\ [](shutdowns >= 1 => built = "ok" /\ Cleared(client))
    /\ [][shutdowns >= 1 =>
            /\ Cleared(client')
            /\ shutdowns' >= shutdowns
            /\ built' = built]_vars

\* after Shutdown an upload was attempted and ForceFlush was called, Shutdown
\* was called again, and the client is still closed
C19_Witness ==
    /\ shutdowns = 2 /\ lastOp.op = "Shutdown"
    /\ \E p \in Callers : calls[p].pc = "done" /\ calls[p].panicked
    /\ Cleared(client)

\* C20 as stated: after Shutdown every field the client holds is cleared,
\* and every use of the client after Shutdown fails.
C20_AllClearedAnyUseFails ==
    shutdowns >= 1 =>
        /\ Cleared(client)
        /\ client.exportTimeout = 0
        /\ ~client.ourConn
        /\ (lastOp.op \in {"ForceFlush", "Temporality", "Aggregation"} =>
               lastOp.panicked)
        /\ \A p \in Callers : ~InProgress(calls[p])

\* C20 amended: Shutdown sets the headers, the retry strategy, the stub and
\* the connection reference to nil and leaves the export timeout, the
\* selectors and ourConn as they are.  After Shutdown no call is in progress
\* and none makes an Export invocation: an UploadMetrics call with a live
\* scope derives and releases its export scope and panics on the nil retry
\* strategy, one with an expired scope returns the scope's error;
\* ForceFlush, Temporality and Aggregation return as on an open client.
C20_UseAfterShutdown ==
    /\ [](shutdowns >= 1 =>
             /\ Cleared(client)
             /\ \A p \in Callers : ~InProgress(calls[p]))
    /\ [][shutdowns' = shutdowns + 1 =>
            /\ client'.exportTimeout = client.exportTimeout
            /\ client'.temporalitySelector = client.temporalitySelector
            /\ client'.aggregationSelector = client.aggregationSelector
            /\ client'.ourConn = client.ourConn]_vars
    /\ [][shutdowns >= 1 =>
            \A p \in Callers :
               calls'[p] # calls[p] =>
                  /\ calls'[p].pc = "done"
                  /\ calls'[p].attempts = 0
                  /\ IF calls'[p].entryErr = Nil
                     THEN /\ calls'[p].panicked
                          /\ calls'[p].derived /\ calls'[p].released
                     ELSE /\ ~calls'[p].panicked
                          /\ calls'[p].result = calls'[p].entryErr]_vars
    /\ [][shutdowns >= 1 /\ lastOp' # lastOp /\ lastOp'.op # "Shutdown" =>
            /\ ~lastOp'.panicked
            /\ (lastOp'.op = "ForceFlush" => lastOp'.ret = lastOp'.scopeErr)
            /\ (lastOp'.op = "Temporality" =>
                   lastOp'.value = client.temporalitySelector[lastOp'.kind])
            /\ (lastOp'.op = "Aggregation" =>
                   lastOp'.value = client.aggregationSelector[lastOp'.kind])]_vars

\* on a client with an export timeout that was shut down, an UploadMetrics
\* call with a live scope panicked before any Export, and a ForceFlush call
\* made after it returned nil
C20_Witness ==
    /\ shutdowns >= 1 /\ client.exportTimeout > 0
    /\ \E p \in Callers :
          /\ calls[p].pc = "done" /\ calls[p].panicked
          /\ calls[p].entryErr = Nil /\ calls[p].attempts = 0
          /\ calls[p].derived /\ calls[p].released
    /\ lastOp.op = "ForceFlush" /\ lastOp.ret = Nil /\ ~lastOp.panicked

=============================================================================
